---- MODULE Spec2Model ----
(***************************************************************************)
(* knuu: teardown of Instances (pkg/knuu/instance_destroy.go) and the      *)
(* container BuilderFactory (pkg/container).                               *)
(*                                                                         *)
(* Spec        : Instance lifecycle, Destroy and BatchDestroy.             *)
(* BuilderSpec : one BuilderFactory and its instruction list.              *)
(* ErrSpec     : the structured errors of package kaniko: Wrap and Error.  *)
(* ReadSpec    : BuilderFactory.ReadFileFromBuilder and its container.     *)
(* HashSpec    : GenerateImageHash on two factories and their directories. *)
(* RunSpec     : runs that build over one directory: hash, then push.      *)
(* TeardownSpec: one Destroy call step by step, under its deadline.        *)
(* ConcSpec    : two tasks, each working on its own instance and factory.  *)
(***************************************************************************)
EXTENDS Integers, Sequences, FiniteSets, TLC

VARIABLES
    state,        \* Instance.state of every instance and sidecar
    skipCleanup,  \* os.Getenv("KNUU_SKIP_CLEANUP") == "true"
    pc,           \* the caller: "ready" to call, or "returned" from a call
    op,           \* the last call: its name and arguments
    pre,          \* `state` as it was when the last call was made
    trace,        \* what the last call did, in order: remote deletions, state writes
    attempted,    \* the instances on which the last call entered Destroy, in order
    ret,          \* what the last call returned (NoErr, or an error value)
    dockerFileInstructions,  \* BuilderFactory.dockerFileInstructions
    imageNameTo,             \* BuilderFactory.imageNameTo
    contextFiles,            \* the files of the build-context directory
    builds,                  \* the imageBuilder.Build calls made so far, in order
    imageNameFrom,           \* BuilderFactory.imageNameFrom
    bop,                     \* the last BuilderFactory call: its name and image argument
    bret,                    \* what the last BuilderFactory call returned
    cause,        \* the Err field of every package-level *Error value
    rendering,    \* the last Error() call: its receiver and the string it returned
    held,         \* per caller: the error it was returned and the cause it wrapped
    rin,          \* the last ReadFileFromBuilder call: what the Docker daemon did to it
    docker,       \* the client calls the last ReadFileFromBuilder call made, in order
    rret,         \* what the last ReadFileFromBuilder call returned: data and error
    hin,          \* two factories, their build-context directories, how they differ
    hout,         \* what GenerateImageHash last returned on each of the two
    run,          \* the number of the run that holds the BuilderFactory
    hash,         \* what GenerateImageHash returned in this run
    prevRun,      \* the run before: its instructions, its hash, the caller's files
    now,          \* the clock
    ctx,          \* the context of the Destroy call in progress: made when, done when
    observed,     \* the deletions of that call: the deadline each got, when it ran
    tasks,        \* per task: its calls, where it is in them, what they returned
    instrs,       \* dockerFileInstructions of the factory of each task
    hashers,      \* what has been written to each sha256 hasher
    cenv          \* the start of the tasks: instance states, failing deletions

ivars == <<state, skipCleanup, pc, op, pre, trace, attempted, ret>>
bvars == <<dockerFileInstructions, imageNameTo, contextFiles, builds,
           imageNameFrom, bop, bret>>
evars == <<cause, rendering, held>>
\* everything but the instances, but the BuilderFactory, but the errors
rvars == <<rin, docker, rret>>
hvars == <<hin, hout>>
nvars == <<run, hash, prevRun>>
tvars == <<now, ctx, observed>>
cvars == <<tasks, instrs, hashers, cenv>>
besidesInstances == <<bvars, evars, rvars, hvars, nvars, tvars, cvars>>
besidesBuilder == <<ivars, evars, rvars, hvars, nvars, tvars, cvars>>
besidesErrors == <<ivars, bvars, rvars, hvars, nvars, tvars, cvars>>
besidesReader == <<ivars, evars, hvars, nvars, tvars, cvars>>
besidesHashes == <<ivars, bvars, evars, rvars, nvars, tvars, cvars>>
besidesRuns == <<ivars, evars, rvars, hvars, tvars, cvars>>
besidesTeardown == <<bvars, evars, rvars, hvars, nvars, cvars>>
besidesConc == <<skipCleanup, pc, op, pre, trace, attempted, ret,
                 bvars, evars, rvars, hvars, nvars, tvars>>
vars == <<state, skipCleanup, pc, op, pre, trace, attempted, ret,
          dockerFileInstructions, imageNameTo, contextFiles, builds,
          imageNameFrom, bop, bret, cause, rendering, held, rin, docker, rret,
          hin, hout, run, hash, prevRun, now, ctx, observed,
          tasks, instrs, hashers, cenv>>

----------------------------------------------------------------------------
(* Bounds *)

\* the most sidecars an instance owns
MaxSidecars == 2
\* the configured timeout of Destroy, in ticks of the clock
Timeout == 2
\* the last tick of the clock
MaxTime == 4
\* the most runs over one build-context directory
MaxRuns == 2
\* the most bytes of a file of a build-context directory
MaxFileLen == 1
\* the most entries of an archive CopyFromContainer streams
MaxEntries == 3
\* the longest argument list of BatchDestroy
MaxBatch == 3
\* the most remote objects whose deletion fails during one call
MaxFaults == 1
\* the most instructions a BuilderFactory accumulates, the initial FROM included
MaxInstr == 3
\* the most imageBuilder.Build calls recorded
MaxBuilds == 2

----------------------------------------------------------------------------
(* Instances *)

None == "None"
Committed == "Committed"
Started == "Started"
Stopped == "Stopped"
Destroyed == "Destroyed"
InstanceState == {None, Committed, Started, Stopped, Destroyed}

\* An instance is <<name, 0>>; its k-th sidecar is <<name, k>>.
Names == {"A", "B", "C"}
Parents == {<<n, 0>> : n \in Names}
NumSidecars(n) == IF n = "A" THEN MaxSidecars ELSE IF n = "B" THEN 1 ELSE 0
Inst == Parents \cup UNION {{<<n, k>> : k \in 1..NumSidecars(n)} : n \in Names}
\* a nil *Instance in an argument list
Nil == <<"nil", 0>>

\* Instance.sidecars: the ordered list of the sidecars an instance owns
sidecars(i) ==
    IF i[2] = 0 THEN [k \in 1..NumSidecars(i[1]) |-> <<i[1], k>>] ELSE <<>>

\* the set of the elements of a sequence
Range(s) == {s[k] : k \in DOMAIN s}

----------------------------------------------------------------------------
(* The orchestrator: remote objects, and the deletions that fail *)

Pod(i) == <<"pod", i>>
Res(i) == <<"res", i>>
StateWrite(i) == <<"state", i>>
\* the remote objects one Destroy of i deletes: its Pod, its resources and
\* the resources of its sidecars
Deletions(i) == {Pod(i), Res(i)} \cup {Res(sidecars(i)[k]) : k \in DOMAIN sidecars(i)}
\* the sets of remote objects whose deletion fails during one call on the
\* given instances
Faults(instances) ==
    {F \in SUBSET UNION {Deletions(i) : i \in Range(instances) \ {Nil}} :
        Cardinality(F) <= MaxFaults}

----------------------------------------------------------------------------
(* Error values of package knuu *)

Err(code, st, i) == [code |-> code, state |-> st, inst |-> i]
NoErr == Err("nil", "", Nil)
ErrDestroyingNotAllowed(st) == Err("DestroyingNotAllowed", st, Nil)
ErrDestroyingPod(i) == Err("DestroyingPod", "", i)
ErrDestroyingResourcesForInstance(i) == Err("DestroyingResourcesForInstance", "", i)
ErrDestroyingResourcesForSidecars(i) == Err("DestroyingResourcesForSidecars", "", i)

----------------------------------------------------------------------------
(* Instance.Destroy *)

\* i.IsInState(states...)
IsInState(st, i, states) == st[i] \in states

\* if i.state == Destroyed { return nil }
AlreadyDestroyed_Never(st, i) == FALSE
AlreadyDestroyed(st, i) == st[i] = Destroyed

\* the states Destroy is allowed in: i.IsInState(Started, Stopped, Destroyed)
DestroyAllowedStates_WithCommitted == {Committed, Started, Stopped, Destroyed}
DestroyAllowedStates == {Started, Stopped, Destroyed}

\* i.destroyPod(ctx): deletes the instance's Pod; ok iff the deletion succeeded
destroyPod(i, faulty) == [trace |-> <<Pod(i)>>, ok |-> Pod(i) \notin faulty]

\* i.destroyResources(ctx): deletes the instance's other remote resources
destroyResources(i, faulty) == [trace |-> <<Res(i)>>, ok |-> Res(i) \notin faulty]

\* applyFunctionToInstances(i.sidecars, func(sidecar) { return
\* sidecar.destroyResources(ctx) }): in order, stopping at the first error
RECURSIVE applyFunctionToInstances(_, _)
applyFunctionToInstances(scs, faulty) ==
    IF scs = <<>> THEN [trace |-> <<>>, ok |-> TRUE]
    ELSE LET r == destroyResources(Head(scs), faulty) IN
         IF ~r.ok THEN r
         ELSE LET rest == applyFunctionToInstances(Tail(scs), faulty) IN
              [trace |-> r.trace \o rest.trace, ok |-> rest.ok]

\* setStateForSidecars(sidecars, s): every sidecar of the list gets state s
setStateForSidecars(st, scs, s) ==
    [state |-> [j \in DOMAIN st |-> IF j \in Range(scs) THEN s ELSE st[j]],
     trace |-> [k \in DOMAIN scs |-> StateWrite(scs[k])]]

\* if err := i.destroyPod(ctx); err != nil { return ... }
PodStepFailed_Ignored(r) == FALSE
PodStepFailed(r) == ~r.ok

\* if err := i.destroyResources(ctx); err != nil { return ... }
ResourceStepFailed_Ignored(r) == FALSE
ResourceStepFailed(r) == ~r.ok

\* err := applyFunctionToInstances(...); if err != nil { return ... }
SidecarStepFailed_Ignored(r) == FALSE
SidecarStepFailed(r) == ~r.ok

\* i.state = Destroyed
SetDestroyed_Skipped(st, i) == st
SetDestroyed(st, i) == [st EXCEPT ![i] = Destroyed]

\* Destroy on instance i in states st, the deletions in `faulty` failing:
\* the states afterwards, what was done in order, and the error returned.
Destroy(st, i, faulty) ==
    IF AlreadyDestroyed(st, i)
    THEN [state |-> st, trace |-> <<>>, err |-> NoErr]
    ELSE IF ~IsInState(st, i, DestroyAllowedStates)
    THEN [state |-> st, trace |-> <<>>, err |-> ErrDestroyingNotAllowed(st[i])]
    ELSE LET p == destroyPod(i, faulty) IN
    IF PodStepFailed(p)
    THEN [state |-> st, trace |-> p.trace, err |-> ErrDestroyingPod(i)]
    ELSE LET r == destroyResources(i, faulty) IN
    IF ResourceStepFailed(r)
    THEN [state |-> st, trace |-> p.trace \o r.trace,
          err |-> ErrDestroyingResourcesForInstance(i)]
    ELSE LET c == applyFunctionToInstances(sidecars(i), faulty) IN
    IF SidecarStepFailed(c)
    THEN [state |-> st, trace |-> p.trace \o r.trace \o c.trace,
          err |-> ErrDestroyingResourcesForSidecars(i)]
    ELSE LET own == SetDestroyed(st, i)
             sc == setStateForSidecars(own, sidecars(i), Destroyed) IN
         [state |-> sc.state,
          trace |-> p.trace \o r.trace \o c.trace \o <<StateWrite(i)>> \o sc.trace,
          err |-> NoErr]

----------------------------------------------------------------------------
(* BatchDestroy *)

\* if os.Getenv("KNUU_SKIP_CLEANUP") == "true" { return nil }
SkipsCleanup_Never(env) == FALSE
SkipsCleanup(env) == env

\* if err := instance.Destroy(); err != nil { return err }
BatchStops_Never(err) == FALSE
BatchStops(err) == err # NoErr

\* for _, instance := range instances { ... }
\* if instance == nil { continue }: the loop goes on with the entries after it
AfterNil_Break(rest) == <<>>
AfterNil(rest) == rest

RECURSIVE BatchLoop(_, _, _)
BatchLoop(st, instances, faulty) ==
    IF instances = <<>>
    THEN [state |-> st, trace |-> <<>>, attempted |-> <<>>, err |-> NoErr]
    ELSE LET instance == Head(instances) IN
         IF instance = Nil THEN BatchLoop(st, AfterNil(Tail(instances)), faulty)
         ELSE LET d == Destroy(st, instance, faulty) IN
              IF BatchStops(d.err)
              THEN [state |-> d.state, trace |-> d.trace,
                    attempted |-> <<instance>>, err |-> d.err]
              ELSE LET rest == BatchLoop(d.state, Tail(instances), faulty) IN
                   [state |-> rest.state, trace |-> d.trace \o rest.trace,
                    attempted |-> <<instance>> \o rest.attempted, err |-> rest.err]

BatchDestroy(st, instances, faulty, env) ==
    IF SkipsCleanup(env)
    THEN [state |-> st, trace |-> <<>>, attempted |-> <<>>, err |-> NoErr]
    ELSE BatchLoop(st, instances, faulty)

----------------------------------------------------------------------------
(* The caller of Destroy and BatchDestroy *)

NoOp == [name |-> "none", args |-> <<>>, faulty |-> {}]
\* the argument lists of BatchDestroy: instances and nil entries
BatchArgs == UNION {[1..n -> Parents \cup {Nil}] : n \in 0..MaxBatch}

\* NewInstance: every instance starts in state None
IInit ==
    /\ state = [i \in Inst |-> None]
    /\ skipCleanup \in BOOLEAN
    /\ pc = "ready"
    /\ op = NoOp
    /\ pre = state
    /\ trace = <<>>
    /\ attempted = <<>>
    /\ ret = NoErr

Quiet == /\ pc' = "ready" /\ op' = NoOp /\ pre' = state' /\ trace' = <<>>
         /\ attempted' = <<>> /\ ret' = NoErr /\ UNCHANGED skipCleanup
         /\ UNCHANGED besidesInstances

\* Commit: None -> Committed
Commit(i) ==
    /\ pc = "ready"
    /\ state[i] = None
    /\ state' = [state EXCEPT ![i] = Committed]
    /\ Quiet

\* Start: Committed or Stopped -> Started, the sidecars with it
Start(i) ==
    /\ pc = "ready"
    /\ state[i] \in {Committed, Stopped}
    /\ state' = setStateForSidecars([state EXCEPT ![i] = Started],
                                    sidecars(i), Started).state
    /\ Quiet

\* Stop: Started -> Stopped, the sidecars with it
Stop(i) ==
    /\ pc = "ready"
    /\ state[i] = Started
    /\ state' = setStateForSidecars([state EXCEPT ![i] = Stopped],
                                    sidecars(i), Stopped).state
    /\ Quiet

\* a call i.Destroy() and its return
DestroyCall(i) ==
    /\ pc = "ready"
    /\ \E faulty \in Faults(<<i>>) :
         LET d == Destroy(state, i, faulty) IN
         /\ state' = d.state
         /\ trace' = d.trace
         /\ ret' = d.err
         /\ op' = [name |-> "Destroy", args |-> <<i>>, faulty |-> faulty]
    /\ attempted' = <<i>>
    /\ pre' = state
    /\ pc' = "returned"
    /\ UNCHANGED skipCleanup
    /\ UNCHANGED besidesInstances

\* a call BatchDestroy(instances...) and its return
BatchDestroyCall(instances) ==
    /\ pc = "ready"
    /\ \E faulty \in Faults(instances) :
         LET b == BatchDestroy(state, instances, faulty, skipCleanup) IN
         /\ state' = b.state
         /\ trace' = b.trace
         /\ attempted' = b.attempted
         /\ ret' = b.err
         /\ op' = [name |-> "BatchDestroy", args |-> instances, faulty |-> faulty]
    /\ pre' = state
    /\ pc' = "returned"
    /\ UNCHANGED skipCleanup
    /\ UNCHANGED besidesInstances

\* the caller takes the result (if err != nil { t.Fatalf(...) }) and goes on
Return ==
    /\ pc = "returned"
    /\ UNCHANGED state
    /\ Quiet

Next ==
    \/ \E i \in Parents : Commit(i)
    \/ \E i \in Parents : Start(i)
    \/ \E i \in Parents : Stop(i)
    \/ \E i \in Parents : DestroyCall(i)
    \/ \E instances \in BatchArgs : BatchDestroyCall(instances)
    \/ Return

----------------------------------------------------------------------------
(* BuilderFactory *)

\* the strings callers pass, as sequences of bytes
Strings == {<<"a">>, <<"b">>}
BaseImages == {<<"a">>, <<"b">>}
ImageNames == {"x", "y"}
NoImage == ""
\* command []string of ExecuteCmdInBuilder
Commands == {<< <<"a">> >>, << <<"a">>, <<"b">> >>}
Owners == {<<"0", ":", "0">>}

\* strings.Join(elems, sep)
RECURSIVE Join(_, _)
Join(elems, sep) ==
    IF elems = <<>> THEN <<>>
    ELSE IF Len(elems) = 1 THEN elems[1]
    ELSE elems[1] \o sep \o Join(Tail(elems), sep)

\* []string{"FROM " + imageName}
InitialInstructions(imageName) == << <<"FROM ">> \o imageName >>

\* the build-context directories callers hand over: empty, or holding one file
CallerFiles == {<<>>, [p \in {"a.txt"} |-> <<"a">>]}
WriteFile(files, path, content) ==
    [p \in DOMAIN files \cup {path} |-> IF p = path THEN content ELSE files[p]]

NoBErr == "nil"
NoBOp == [name |-> "NewBuilderFactory", image |-> NoImage]

\* NewBuilderFactory(imageName, buildContext, imageBuilder)
BInit ==
    /\ imageNameFrom \in BaseImages
    /\ dockerFileInstructions = InitialInstructions(imageNameFrom)
    /\ imageNameTo = NoImage
    /\ contextFiles \in CallerFiles
    /\ builds = <<>>
    /\ bop = NoBOp
    /\ bret = NoBErr

\* f.dockerFileInstructions = append(f.dockerFileInstructions, instruction)
AppendInstruction_Replace(instructions, instruction) == <<instruction>>
AppendInstruction(instructions, instruction) == Append(instructions, instruction)

\* what an instruction-appending call leaves alone, and its nil return
AppendReturns(name) ==
    /\ bop' = [name |-> name, image |-> NoImage]
    /\ bret' = NoBErr
    /\ UNCHANGED <<imageNameTo, contextFiles, builds, imageNameFrom>>
    /\ UNCHANGED besidesBuilder

\* ExecuteCmdInBuilder(command)
ExecuteCmdInBuilder(command) ==
    /\ Len(dockerFileInstructions) < MaxInstr
    /\ dockerFileInstructions' = AppendInstruction(dockerFileInstructions,
           <<"RUN ">> \o Join(command, <<" ">>))
    /\ AppendReturns("ExecuteCmdInBuilder")

\* AddToBuilder(srcPath, destPath, chown)
AddToBuilder(srcPath, destPath, chown) ==
    /\ Len(dockerFileInstructions) < MaxInstr
    /\ dockerFileInstructions' = AppendInstruction(dockerFileInstructions,
           <<"ADD --chown=">> \o chown \o <<" ">> \o srcPath \o <<" ">> \o destPath)
    /\ AppendReturns("AddToBuilder")

\* SetEnvVar(name, value)
SetEnvVar(name, value) ==
    /\ Len(dockerFileInstructions) < MaxInstr
    /\ dockerFileInstructions' = AppendInstruction(dockerFileInstructions,
           <<"ENV ">> \o name \o <<"=">> \o value)
    /\ AppendReturns("SetEnvVar")

\* SetUser(user)
SetUser(user) ==
    /\ Len(dockerFileInstructions) < MaxInstr
    /\ dockerFileInstructions' = AppendInstruction(dockerFileInstructions,
           <<"USER ">> \o user)
    /\ AppendReturns("SetUser")

\* Changed(): len(f.dockerFileInstructions) > 1
Changed_AtLeastOne(instructions) == Len(instructions) >= 1
Changed(instructions) == Len(instructions) > 1

\* if !f.Changed() { return nil }
PushSkipped_Never(instructions) == FALSE
PushSkipped(instructions) == ~Changed(instructions)

\* PushBuilderImage(imageName). The context directory exists since
\* NewBuilderFactory made it, so os.Stat finds it.
PushBuilderImage(imageName) ==
    /\ Len(builds) < MaxBuilds
    /\ bop' = [name |-> "PushBuilderImage", image |-> imageName]
    /\ UNCHANGED <<dockerFileInstructions, imageNameFrom>>
    /\ UNCHANGED besidesBuilder
    /\ IF PushSkipped(dockerFileInstructions)
       THEN /\ bret' = NoBErr
            /\ UNCHANGED <<imageNameTo, contextFiles, builds>>
       ELSE /\ imageNameTo' = imageName
            /\ \E outcome \in {"ok", "writeFails", "buildFails"} :
                 IF outcome = "writeFails"
                 THEN /\ bret' = "FailedToWriteDockerfile"
                      /\ UNCHANGED <<contextFiles, builds>>
                 ELSE /\ contextFiles' = WriteFile(contextFiles, "Dockerfile",
                              Join(dockerFileInstructions, <<"\n">>))
                      /\ builds' = Append(builds, imageName)
                      /\ bret' = IF outcome = "ok" THEN NoBErr ELSE "BuildFailed"

\* BuildImageFromGitRepo(ctx, gitCtx, imageName)
BuildImageFromGitRepo(imageName) ==
    /\ Len(builds) < MaxBuilds
    /\ bop' = [name |-> "BuildImageFromGitRepo", image |-> imageName]
    /\ UNCHANGED <<dockerFileInstructions, imageNameFrom, contextFiles>>
    /\ UNCHANGED besidesBuilder
    /\ \E outcome \in {"ok", "contextFails", "cacheFails", "buildFails"} :
         IF outcome = "contextFails"
         THEN /\ bret' = "FailedToGetBuildContext"
              /\ UNCHANGED <<imageNameTo, builds>>
         ELSE /\ imageNameTo' = imageName
              /\ IF outcome = "cacheFails"
                 THEN /\ bret' = "FailedToGetDefaultCacheOptions"
                      /\ UNCHANGED builds
                 ELSE /\ builds' = Append(builds, imageName)
                      /\ bret' = IF outcome = "ok" THEN NoBErr ELSE "BuildFailed"

BuilderNext ==
    \/ \E command \in Commands : ExecuteCmdInBuilder(command)
    \/ \E src \in {<<"a">>}, chown \in Owners : AddToBuilder(src, <<"b">>, chown)
    \/ \E value \in Strings : SetEnvVar(<<"a">>, value)
    \/ \E user \in {<<"a">>} : SetUser(user)
    \/ \E imageName \in ImageNames : PushBuilderImage(imageName)
    \/ \E imageName \in ImageNames : BuildImageFromGitRepo(imageName)

----------------------------------------------------------------------------
(* Package kaniko: structured errors *)

\* the package-level error values (two of the Err* variables of lines 29-53)
ErrKinds == {"ErrBuildFailed", "ErrCleaningUp"}
\* errors of other types, such as those the standard library returns
Causes == {"io"}
NilErr == "nil"
\* Error.Message of a package-level error value; the text of another error
Message(e) ==
    CASE e = "ErrBuildFailed" -> "build failed"
      [] e = "ErrCleaningUp" -> "error cleaning up"
      [] OTHER -> e

\* a call chain of Error() that comes back to a receiver it is already
\* rendering never returns: the Err fields are not written meanwhile
Diverges == <<"stack overflow">>
\* the most Error() calls that can be nested before one receiver repeats
MaxNesting == Cardinality(ErrKinds)

\* if e.Err == e { return e.Message }
SelfWrapped_Never(c, e) == FALSE
SelfWrapped(c, e) == c[e] = e

\* fmt.Sprintf("%s: %v", e.Message, e.Err), given the string of e.Err
Sprintf_Bare(message, rest) == <<message>>
Sprintf(message, rest) == <<message, ": ">> \o rest

\* Error.Error() on e with the Err fields c; an error of another type
\* renders as its own text
RECURSIVE ErrorText(_, _, _)
ErrorText(c, e, nesting) ==
    IF e \notin ErrKinds THEN <<Message(e)>>
    ELSE IF SelfWrapped(c, e) THEN <<Message(e)>>
    ELSE IF c[e] # NilErr
         THEN IF nesting = 0 THEN Diverges
              ELSE LET rest == ErrorText(c, c[e], nesting - 1) IN
                   IF rest = Diverges THEN Diverges ELSE Sprintf(Message(e), rest)
    ELSE <<Message(e)>>

NoRendering == [of |-> NilErr, text |-> <<>>]
\* the callers that hold on to the error a call returned to them
Callers == {1, 2}
NoHeld == [err |-> NilErr, wrapped |-> NilErr]
EIdle ==
    /\ cause = [e \in ErrKinds |-> NilErr]
    /\ rendering = NoRendering
    /\ held = [t \in Callers |-> NoHeld]
\* var ( Err... = &Error{Code: ..., Message: ...} ): no Err field is set
EInit == EIdle

\* Error.Wrap(err) on the package-level value e: e.Err = err; return e.
\* The caller t gets the pointer e itself, as in "return ErrX.Wrap(err)".
Wrap(t, e, err) ==
    /\ rendering.text # Diverges
    /\ cause' = [cause EXCEPT ![e] = err]
    /\ held' = [held EXCEPT ![t] = [err |-> e, wrapped |-> err]]
    /\ UNCHANGED rendering
    /\ UNCHANGED besidesErrors

\* a caller renders the package-level value e: e.Error()
CallError(e) ==
    /\ rendering.text # Diverges
    /\ rendering' = [of |-> e, text |-> ErrorText(cause, e, MaxNesting)]
    /\ UNCHANGED <<cause, held>>
    /\ UNCHANGED besidesErrors

\* the caller t is returned the package-level value e as it is, without
\* a cause, as in "return ErrX"
ReturnBare(t, e) ==
    /\ rendering.text # Diverges
    /\ held' = [held EXCEPT ![t] = [err |-> e, wrapped |-> NilErr]]
    /\ UNCHANGED <<cause, rendering>>
    /\ UNCHANGED besidesErrors

\* the caller t renders the error it holds: err.Error()
CallErrorOfHeld(t) ==
    /\ held[t] # NoHeld
    /\ CallError(held[t].err)

ErrNext ==
    \/ \E t \in Callers, e \in ErrKinds, err \in ErrKinds \cup Causes \cup {NilErr} :
          Wrap(t, e, err)
    \/ \E t \in Callers, e \in ErrKinds : ReturnBare(t, e)
    \/ \E e \in ErrKinds : CallError(e)
    \/ \E t \in Callers : CallErrorOfHeld(t)

----------------------------------------------------------------------------
(* BuilderFactory.ReadFileFromBuilder *)

\* the entries of the tar stream of CopyFromContainer(filePath): their type,
\* whether they are the entry of filePath itself, and their bytes
RegularFiles == [type : {"reg"}, requested : BOOLEAN, data : Strings]
Others == [type : {"dir", "symlink"}, requested : BOOLEAN, data : {<<>>}]
IsChild(entry) == ~entry.requested /\ entry.type \in {"reg", "dir"}
\* what the daemon streams: nothing, the one entry of a file or of a symbolic
\* link at filePath, or the entry of the directory at filePath followed by
\* the entries below it
Archives ==
    {a \in UNION {[1..n -> RegularFiles \cup Others] : n \in 0..MaxEntries} :
        \/ a = <<>>
        \/ Len(a) = 1 /\ a[1].requested /\ a[1].type \in {"reg", "symlink"}
        \/ /\ a[1].requested /\ a[1].type = "dir"
           /\ \A k \in 2..Len(a) : IsChild(a[k])}

ClientCalls == {"ContainerCreate", "ContainerStart", "CopyFromContainer",
                "ContainerStop", "ContainerRemove"}
\* one ReadFileFromBuilder call as the daemon treats it: the client calls
\* that return an error, the archive, the tarReader.Next() call that fails
\* (0: none) and whether io.ReadAll fails
ReadEnvs ==
    {env \in [fails : SUBSET ClientCalls, archive : Archives,
              nextFailsAt : 0..(MaxEntries + 1), readFails : BOOLEAN] :
        env.nextFailsAt <= Len(env.archive) + 1}
\* the factory is not in a ReadFileFromBuilder call
NoRead == [image |-> NoImage, called |-> FALSE, fails |-> {}, archive |-> <<>>,
           nextFailsAt |-> 0, readFails |-> FALSE]

NoData == <<"nil">>
NoRErr == "nil"
Called(name, env) == <<name, IF name \in env.fails THEN "error" ELSE "ok">>
\* f.cli.X(...) returned err != nil
ClientFails(name, env) == name \in env.fails

\* header, err := tarReader.Next() with err neither nil nor io.EOF
TarNextFails_Never(env, k) == FALSE
TarNextFails(env, k) == env.nextFailsAt = k

\* the loop of lines 182-199 from the k-th tarReader.Next() call on
RECURSIVE ReadTar(_, _)
ReadTar(env, k) ==
    IF TarNextFails(env, k) THEN [data |-> NoData, err |-> "FailedToReadFromTar"]
    ELSE IF k > Len(env.archive)
         THEN [data |-> NoData, err |-> "FileNotFoundInTar"]
    ELSE IF env.archive[k].type = "reg"
         THEN IF env.readFails
              THEN [data |-> NoData, err |-> "FailedToReadFileFromTar"]
              ELSE [data |-> env.archive[k].data, err |-> NoRErr]
    ELSE ReadTar(env, k + 1)

\* the deferred function of lines 152-167: ContainerStop, then
\* ContainerRemove; their errors are logged
StopAndRemove_RemoveIfStopped(env) ==
    IF ClientFails("ContainerStop", env)
    THEN <<Called("ContainerStop", env)>>
    ELSE <<Called("ContainerStop", env), Called("ContainerRemove", env)>>
StopAndRemove(env) ==
    <<Called("ContainerStop", env), Called("ContainerRemove", env)>>

\* ReadFileFromBuilder(filePath) on a factory with destination image image
ReadFileFromBuilder(image, env) ==
    IF image = NoImage
    THEN [data |-> NoData, err |-> "NoImageNameProvided", calls |-> <<>>]
    ELSE IF ClientFails("ContainerCreate", env)
    THEN [data |-> NoData, err |-> "FailedToCreateContainer",
          calls |-> <<Called("ContainerCreate", env)>>]
    ELSE IF ClientFails("ContainerStart", env)
    THEN [data |-> NoData, err |-> "FailedToStartContainer",
          calls |-> <<Called("ContainerCreate", env), Called("ContainerStart", env)>>
                       \o StopAndRemove(env)]
    ELSE IF ClientFails("CopyFromContainer", env)
    THEN [data |-> NoData, err |-> "FailedToCopyFileFromContainer",
          calls |-> <<Called("ContainerCreate", env), Called("ContainerStart", env),
                      Called("CopyFromContainer", env)>> \o StopAndRemove(env)]
    ELSE LET r == ReadTar(env, 1) IN
         [data |-> r.data, err |-> r.err,
          calls |-> <<Called("ContainerCreate", env), Called("ContainerStart", env),
                      Called("CopyFromContainer", env)>> \o StopAndRemove(env)]

RIdle == rin = NoRead /\ docker = <<>> /\ rret = [data |-> NoData, err |-> NoRErr]
\* no ReadFileFromBuilder call was made yet
RInit == RIdle

\* a caller calls ReadFileFromBuilder
ReadFileFromBuilderCall(env) ==
    /\ rin = NoRead
    /\ LET r == ReadFileFromBuilder(imageNameTo, env) IN
          /\ rin' = [image |-> imageNameTo, called |-> TRUE, fails |-> env.fails,
                     archive |-> env.archive, nextFailsAt |-> env.nextFailsAt,
                     readFails |-> env.readFails]
          /\ docker' = r.calls
          /\ rret' = [data |-> r.data, err |-> r.err]
    /\ UNCHANGED bvars
    /\ UNCHANGED besidesReader

\* the caller takes the result and goes on
ReadReturn ==
    /\ rin.called
    /\ rin' = NoRead /\ docker' = <<>> /\ rret' = [data |-> NoData, err |-> NoRErr]
    /\ UNCHANGED bvars
    /\ UNCHANGED besidesReader

ReadNext ==
    \/ \E env \in ReadEnvs : ReadFileFromBuilderCall(env)
    \/ ReadReturn

----------------------------------------------------------------------------
(* BuilderFactory.GenerateImageHash *)

\* A string is the sequence of its pieces; every piece stands for the bytes
\* it spells, and no two pieces start with the same byte, so two strings are
\* the same bytes exactly when they are the same sequence.
Bytes == {"a", "b"}
\* the files filepath.Walk visits, in the lexical order it visits them
WalkOrder == <<"Dockerfile", "a.txt", "b.txt">>

\* hasher.Write(fileContent): the bytes one file adds to the hashed stream
FileBytes_Named(dir, path, content) == <<dir, "/", path>> \o content
FileBytes_Ignored(dir, path, content) == <<>>
FileBytes(dir, path, content) == content

\* filepath.Walk(f.buildContext, ...) from the k-th path on
RECURSIVE WalkBytes(_, _, _)
WalkBytes(dir, files, k) ==
    IF k > Len(WalkOrder) THEN <<>>
    ELSE (IF WalkOrder[k] \in DOMAIN files
          THEN FileBytes(dir, WalkOrder[k], files[WalkOrder[k]])
          ELSE <<>>) \o WalkBytes(dir, files, k + 1)

\* all that is written to the hasher, in order
HashStream(instructions, dir, files) ==
    Join(instructions, <<"\n">>) \o WalkBytes(dir, files, 1)
\* fmt.Sprintf("%x", hasher.Sum(nil)): one digest for every stream
Sum(stream) == <<"sha256">> \o stream

NoHash == [value |-> <<>>, err |-> "none"]
\* GenerateImageHash() on a factory with these instructions over the
\* directory dir holding files
GenerateImageHash(instructions, dir, files, outcome) ==
    IF outcome = "walkFails"
    THEN [value |-> <<>>, err |-> "HashingBuildContext"]
    ELSE [value |-> Sum(HashStream(instructions, dir, files)), err |-> NoBErr]

\* the instructions SetUser and SetEnvVar append; a user name may hold a
\* line break
HashUsers == {<<"a">>, <<"a", "\n", "USER ", "a">>}
HashInstructions ==
    {<<"USER ">> \o user : user \in HashUsers} \cup {<<"ENV ", "a", "=", "a">>}
InstructionLists ==
    {InitialInstructions(<<"a">>) \o rest :
        rest \in UNION {[1..n -> HashInstructions] : n \in 0..(MaxInstr - 1)}}
FileContents == UNION {[1..n -> Bytes] : n \in 0..MaxFileLen}
\* directories: a.txt of any content or missing, b.txt of one byte or missing
ContextDirs ==
    {files \in UNION {[paths -> FileContents] : paths \in SUBSET {"a.txt", "b.txt"}} :
        "b.txt" \in DOMAIN files => files["b.txt"] = <<"b">>}

InsertAt(list, j, x) == SubSeq(list, 1, j - 1) \o <<x>> \o SubSeq(list, j, Len(list))
RemoveAt(list, j) == SubSeq(list, 1, j - 1) \o SubSeq(list, j + 1, Len(list))
MoveTo(list, j, m) == InsertAt(RemoveAt(list, j), m, list[j])
ReplaceByte(content, k, b) == [content EXCEPT ![k] = b]

\* a second factory that has what the first one has, or differs from it in
\* one byte of one file, or in one instruction added, removed or moved
Variants(instructions, files) ==
    LET n == Len(instructions)
        var(kind, l, d) == [kind |-> kind, instructions |-> l, files |-> d]
    IN {var("same", instructions, files)}
       \cup UNION {{var("byte", instructions,
                        [files EXCEPT ![path] = ReplaceByte(@, pos[1], pos[2])]) :
                       pos \in {q \in (DOMAIN files[path]) \X Bytes :
                                   files[path][q[1]] # q[2]}} :
                    path \in DOMAIN files \ {"b.txt"}}
       \cup {var("added", InsertAt(instructions, j, x), files) :
                j \in (IF n < MaxInstr THEN 2..(n + 1) ELSE {}), x \in HashInstructions}
       \cup {var("removed", RemoveAt(instructions, j), files) : j \in 2..n}
       \cup {v \in {var("moved", MoveTo(instructions, j, m), files) :
                       j \in 2..n, m \in 2..n} : v.instructions # instructions}

\* the first factory is over "d1", the second one over "d2"
HashInputs ==
    UNION {{[kind |-> v.kind,
             instructions |-> <<instructions, v.instructions>>,
             files |-> <<files, v.files>>] : v \in Variants(instructions, files)} :
           instructions \in InstructionLists, files \in ContextDirs}
Factories == {1, 2}
buildContext(f) == IF f = 1 THEN "d1" ELSE "d2"

HIdle == /\ hin = [kind |-> "same",
                   instructions |-> <<InitialInstructions(<<"a">>),
                                      InitialInstructions(<<"a">>)>>,
                   files |-> << <<>>, <<>> >>]
         /\ hout = [f \in Factories |-> NoHash]
\* two NewBuilderFactory calls, the instructions appended to each, and the
\* files put into each directory
HInit == hin \in HashInputs /\ hout = [f \in Factories |-> NoHash]

\* a caller calls GenerateImageHash on the factory f
GenerateImageHashCall(f) ==
    /\ \E outcome \in {"ok", "walkFails"} :
          hout' = [hout EXCEPT ![f] = GenerateImageHash(hin.instructions[f],
                                         buildContext(f), hin.files[f], outcome)]
    /\ UNCHANGED hin
    /\ UNCHANGED besidesHashes

HashNext == \E f \in Factories : GenerateImageHashCall(f)

----------------------------------------------------------------------------
(* Runs over one build-context directory *)

\* the files of the directory that the caller has put there
CallerProvided(files) == [path \in DOMAIN files \ {"Dockerfile"} |-> files[path]]
NoRun == [instructions |-> <<>>, hash |-> NoHash, files |-> <<>>]
NIdle == run = 1 /\ hash = NoHash /\ prevRun = NoRun
NInit == NIdle

\* the run is still adding instructions
Configuring == bop.name \in {"NewBuilderFactory", "SetEnvVar", "SetUser"}

\* the run calls GenerateImageHash on its factory
GenerateImageHashOfRun ==
    /\ Configuring
    /\ \E outcome \in {"ok", "walkFails"} :
          /\ hash' = GenerateImageHash(dockerFileInstructions, "d1", contextFiles,
                                       outcome)
          /\ bret' = hash'.err
    /\ bop' = [name |-> "GenerateImageHash", image |-> NoImage]
    /\ UNCHANGED <<dockerFileInstructions, imageNameTo, contextFiles, builds,
                   imageNameFrom, run, prevRun>>
    /\ UNCHANGED besidesRuns

\* the next run: NewBuilderFactory(imageName, buildContext, imageBuilder)
\* with the build context of the run before
NewRun ==
    /\ bop.name = "PushBuilderImage"
    /\ run < MaxRuns
    /\ run' = run + 1
    /\ prevRun' = [instructions |-> dockerFileInstructions, hash |-> hash,
                   files |-> CallerProvided(contextFiles)]
    /\ hash' = NoHash
    /\ dockerFileInstructions' = InitialInstructions(imageNameFrom)
    /\ imageNameTo' = NoImage
    /\ bop' = NoBOp
    /\ bret' = NoBErr
    /\ UNCHANGED <<contextFiles, builds, imageNameFrom>>
    /\ UNCHANGED besidesRuns

RunNext ==
    \/ Configuring /\ SetEnvVar(<<"a">>, <<"a">>)
    \/ Configuring /\ SetUser(<<"a">>)
    \/ GenerateImageHashOfRun
    \/ bop.name = "GenerateImageHash" /\ hash.err = NoBErr /\ PushBuilderImage("x")
    \/ NewRun

----------------------------------------------------------------------------
(* Instance.Destroy step by step, under its deadline *)

NoCtx == [created |-> 0, deadline |-> 0]
TIdle == now = 0 /\ ctx = NoCtx /\ observed = <<>>
TInit == TIdle

\* the deletions of one Destroy of i, in the order of lines 25-35
Steps(i) == <<Pod(i), Res(i)>> \o [k \in DOMAIN sidecars(i) |-> Res(sidecars(i)[k])]
\* the error Destroy returns when the deletion s fails
StepError(i, s) ==
    IF s = Pod(i) THEN ErrDestroyingPod(i)
    ELSE IF s = Res(i) THEN ErrDestroyingResourcesForInstance(i)
    ELSE ErrDestroyingResourcesForSidecars(i)

\* ctx, cancel := context.WithTimeout(context.Background(), timeout)
WithTimeout(t) == [created |-> t, deadline |-> t + Timeout]
\* the context handed to a deletion: the ctx of line 22
StepContext_Fresh(c, t) == WithTimeout(t)
StepContext(c, t) == c
\* ctx.Err() != nil at time t: the deadline has passed
ContextDone(deadline, t) == t >= deadline

\* time passes
Tick ==
    /\ now < MaxTime
    /\ now' = now + 1
    /\ UNCHANGED <<ctx, observed>>
    /\ UNCHANGED ivars
    /\ UNCHANGED besidesTeardown

\* Destroy is called on i: lines 13-23
DestroyBegin(i) ==
    /\ pc = "ready"
    /\ op' = [name |-> "Destroy", args |-> <<i>>, faulty |-> {}]
    /\ pre' = state
    /\ attempted' = <<i>>
    /\ trace' = <<>>
    /\ observed' = <<>>
    /\ IF AlreadyDestroyed(state, i)
       THEN pc' = "returned" /\ ret' = NoErr /\ UNCHANGED ctx
       ELSE IF ~IsInState(state, i, DestroyAllowedStates)
       THEN /\ pc' = "returned" /\ ret' = ErrDestroyingNotAllowed(state[i])
            /\ UNCHANGED ctx
       ELSE pc' = "calling" /\ ret' = NoErr /\ ctx' = WithTimeout(now)
    /\ UNCHANGED <<state, skipCleanup, now>>
    /\ UNCHANGED besidesTeardown

\* Destroy calls its next deletion, handing it a context
StepBegin ==
    /\ pc = "calling"
    /\ LET i == op.args[1]
           s == Steps(i)[Len(observed) + 1]
       IN observed' = Append(observed,
              [step |-> s, deadline |-> StepContext(ctx, now).deadline,
               calledAt |-> now, returnedAt |-> now])
    /\ pc' = "inStep"
    /\ UNCHANGED <<state, skipCleanup, op, pre, trace, attempted, ret, now, ctx>>
    /\ UNCHANGED besidesTeardown

\* the deletion returns: an error if its context was done when it was
\* called, else nil or an error; after the last one, lines 40-41
StepEnd(ok) ==
    /\ pc = "inStep"
    /\ LET i == op.args[1]
           k == Len(observed)
           o == observed[k]
       IN /\ ok => ~ContextDone(o.deadline, o.calledAt)
          /\ observed' = [observed EXCEPT ![k].returnedAt = now]
          /\ IF ~ok
             THEN /\ pc' = "returned" /\ ret' = StepError(i, o.step)
                  /\ trace' = Append(trace, o.step)
                  /\ UNCHANGED state
             ELSE IF k < Len(Steps(i))
             THEN /\ pc' = "calling" /\ trace' = Append(trace, o.step)
                  /\ UNCHANGED <<state, ret>>
             ELSE LET w == setStateForSidecars(SetDestroyed(state, i),
                                               sidecars(i), Destroyed)
                  IN /\ pc' = "returned" /\ ret' = NoErr
                     /\ state' = w.state
                     /\ trace' = Append(trace, o.step) \o <<StateWrite(i)>> \o w.trace
    /\ UNCHANGED <<skipCleanup, op, pre, attempted, now, ctx>>
    /\ UNCHANGED besidesTeardown

\* the caller takes the result
DestroyEnd ==
    /\ pc = "returned"
    /\ pc' = "ready"
    /\ UNCHANGED <<state, skipCleanup, op, pre, trace, attempted, ret>>
    /\ UNCHANGED tvars
    /\ UNCHANGED besidesTeardown

TeardownNext ==
    \/ Tick
    \/ \E i \in Parents : DestroyBegin(i)
    \/ StepBegin
    \/ \E ok \in BOOLEAN : StepEnd(ok)
    \/ DestroyEnd

----------------------------------------------------------------------------
(* Concurrent tasks on different instances and factories *)

\* for i := 0; i < numberOfInstances; i++ { go func() { ... }() }
Tasks == {1, 2}
\* the instance and the build context that belong to the task t
InstanceOf(t) == IF t = 1 THEN <<"A", 0>> ELSE <<"B", 0>>
FilesOf(t) ==
    IF t = 1 THEN [path \in {"a.txt"} |-> <<"a">>]
    ELSE [path \in {"a.txt", "b.txt"} |-> <<"b">>]
\* AddToBuilder(src, dest, chown) as AddFolder calls it
AddedInstruction == <<"ADD --chown=", "0", ":", "0", " ", "a", " ", "b">>

\* what one task calls, in order, on its instance and its factory
Programs ==
    { <<"AddToBuilder", "GenerateImageHash">>,
      <<"GenerateImageHash", "AddToBuilder", "GenerateImageHash">>,
      <<"Destroy">>,
      <<"AddToBuilder", "Destroy", "GenerateImageHash">>,
      <<"Destroy", "Destroy">> }

Result(name, err, value) == [op |-> name, err |-> err, value |-> value]
NewTask(prog) == [prog |-> prog, ip |-> 1, k |-> 0, results |-> <<>>, trace |-> <<>>]
Current(t) ==
    IF tasks[t].ip > Len(tasks[t].prog) THEN "done" ELSE tasks[t].prog[tasks[t].ip]
\* the call of task t returns
Returns(t, err, value) ==
    [tasks[t] EXCEPT !.ip = @ + 1, !.k = 0,
                     !.results = Append(@, Result(Current(t), err, value))]

\* hasher := sha256.New(): every call has a hasher of its own
hasherOf_Shared(t) == 1
hasherOf(t) == t

CIdle ==
    /\ tasks = [t \in Tasks |-> NewTask(<<>>)]
    /\ instrs = [t \in Tasks |-> InitialInstructions(<<"a">>)]
    /\ hashers = [t \in Tasks |-> <<>>]
    /\ cenv = [state |-> [i \in Inst |-> None], faulty |-> {}]

\* the instances the tasks work on, each with its sidecars, in one state
StartStates ==
    {[i \in Inst |-> IF i[1] = "A" THEN a ELSE IF i[1] = "B" THEN b ELSE None] :
        a \in {Started, Committed}, b \in {Started, Stopped}}
CInit ==
    /\ tasks \in [Tasks -> {NewTask(prog) : prog \in Programs}]
    /\ instrs = [t \in Tasks |-> InitialInstructions(<<"a">>)]
    /\ hashers = [t \in Tasks |-> <<>>]
    /\ cenv \in [state : StartStates,
                 faulty : Faults(<<InstanceOf(1), InstanceOf(2)>>)]
    /\ state = cenv.state

\* task t is in AddToBuilder: line 126
AddStep(t) ==
    /\ Current(t) = "AddToBuilder"
    /\ Len(instrs[t]) < MaxInstr
    /\ instrs' = [instrs EXCEPT ![t] = AppendInstruction(@, AddedInstruction)]
    /\ tasks' = [tasks EXCEPT ![t] = Returns(t, NoErr, <<>>)]
    /\ UNCHANGED <<hashers, cenv, state>>
    /\ UNCHANGED besidesConc

\* task t is in GenerateImageHash: the instructions are written to the
\* hasher (316-320), then every file in turn (325-342), then the sum is
\* returned (348)
HashStep(t) ==
    /\ Current(t) = "GenerateImageHash"
    /\ LET k == tasks[t].k
           h == hasherOf(t)
       IN IF k = 0
          THEN /\ hashers' = [hashers EXCEPT ![h] = Join(instrs[t], <<"\n">>)]
               /\ tasks' = [tasks EXCEPT ![t].k = 1]
          ELSE IF k <= Len(WalkOrder)
          THEN /\ hashers' = [hashers EXCEPT ![h] =
                      @ \o (IF WalkOrder[k] \in DOMAIN FilesOf(t)
                            THEN FileBytes(buildContext(t), WalkOrder[k],
                                           FilesOf(t)[WalkOrder[k]])
                            ELSE <<>>)]
               /\ tasks' = [tasks EXCEPT ![t].k = k + 1]
          ELSE /\ tasks' = [tasks EXCEPT ![t] = Returns(t, NoErr, Sum(hashers[h]))]
               /\ UNCHANGED hashers
    /\ UNCHANGED <<instrs, cenv, state>>
    /\ UNCHANGED besidesConc

\* task t is in Destroy: the checks (13-19), then one deletion after the
\* other (25-35), then the writes of the states (40-41)
DestroyStep(t) ==
    /\ Current(t) = "Destroy"
    /\ LET i == InstanceOf(t)
           k == tasks[t].k
       IN IF k = 0
          THEN /\ tasks' = [tasks EXCEPT ![t] =
                      IF AlreadyDestroyed(state, i) THEN Returns(t, NoErr, <<>>)
                      ELSE IF ~IsInState(state, i, DestroyAllowedStates)
                      THEN Returns(t, ErrDestroyingNotAllowed(state[i]), <<>>)
                      ELSE [@ EXCEPT !.k = 1]]
               /\ UNCHANGED state
          ELSE IF k <= Len(Steps(i))
          THEN /\ tasks' = [tasks EXCEPT ![t] =
                      IF Steps(i)[k] \in cenv.faulty
                      THEN [Returns(t, StepError(i, Steps(i)[k]), <<>>)
                               EXCEPT !.trace = Append(@, Steps(i)[k])]
                      ELSE [@ EXCEPT !.k = k + 1, !.trace = Append(@, Steps(i)[k])]]
               /\ UNCHANGED state
          ELSE LET w == setStateForSidecars(SetDestroyed(state, i), sidecars(i),
                                            Destroyed)
               IN /\ state' = w.state
                  /\ tasks' = [tasks EXCEPT ![t] =
                         [Returns(t, NoErr, <<>>)
                             EXCEPT !.trace = @ \o <<StateWrite(i)>> \o w.trace]]
    /\ UNCHANGED <<instrs, hashers, cenv>>
    /\ UNCHANGED besidesConc

ConcNext ==
    \/ \E t \in Tasks : AddStep(t)
    \/ \E t \in Tasks : HashStep(t)
    \/ \E t \in Tasks : DestroyStep(t)

\* what the calls of a program do when nothing else runs: from the k-th
\* call on, with these instructions and instance states
RECURSIVE Alone(_, _, _, _, _)
Alone(t, prog, k, instructions, st) ==
    IF k > Len(prog)
    THEN [instructions |-> instructions, state |-> st, results |-> <<>>, trace |-> <<>>]
    ELSE LET name == prog[k]
             d == Destroy(st, InstanceOf(t), cenv.faulty)
             l == IF name = "AddToBuilder"
                  THEN AppendInstruction(instructions, AddedInstruction)
                  ELSE instructions
             r == IF name = "Destroy" THEN Result(name, d.err, <<>>)
                  ELSE IF name = "AddToBuilder" THEN Result(name, NoErr, <<>>)
                  ELSE Result(name, NoErr,
                              GenerateImageHash(instructions, buildContext(t),
                                                FilesOf(t), "ok").value)
             rest == Alone(t, prog, k + 1, l, IF name = "Destroy" THEN d.state ELSE st)
         IN [instructions |-> rest.instructions, state |-> rest.state,
             results |-> <<r>> \o rest.results,
             trace |-> (IF name = "Destroy" THEN d.trace ELSE <<>>) \o rest.trace]

----------------------------------------------------------------------------
(* Specifications *)

BIdle == /\ imageNameFrom = <<"a">>
         /\ dockerFileInstructions = InitialInstructions(imageNameFrom)
         /\ imageNameTo = NoImage /\ contextFiles = <<>> /\ builds = <<>>
         /\ bop = NoBOp /\ bret = NoBErr
IIdle == IInit /\ skipCleanup = FALSE

Init == IInit /\ BIdle /\ EIdle /\ RIdle /\ HIdle /\ NIdle /\ TIdle /\ CIdle
Spec == Init /\ [][Next]_vars

BuilderInit == BInit /\ IIdle /\ EIdle /\ RIdle /\ HIdle /\ NIdle /\ TIdle /\ CIdle
BuilderSpec == BuilderInit /\ [][BuilderNext]_vars

ErrInit == EInit /\ IIdle /\ BIdle /\ RIdle /\ HIdle /\ NIdle /\ TIdle /\ CIdle
ErrSpec == ErrInit /\ [][ErrNext]_vars

\* a factory right after NewBuilderFactory, or right after a successful
\* BuildImageFromGitRepo, which has set imageNameTo
AfterBuildFromGit(imageName) ==
    /\ imageNameFrom = <<"a">>
    /\ dockerFileInstructions = InitialInstructions(imageNameFrom)
    /\ imageNameTo = imageName /\ contextFiles = <<>> /\ builds = <<imageName>>
    /\ bop = [name |-> "BuildImageFromGitRepo", image |-> imageName]
    /\ bret = NoBErr
ReadInit == RInit /\ (BIdle \/ AfterBuildFromGit("x")) /\ IIdle /\ EIdle /\ HIdle /\ NIdle /\ TIdle /\ CIdle
ReadSpec == ReadInit /\ [][ReadNext]_vars

HashInit == HInit /\ IIdle /\ BIdle /\ EIdle /\ RIdle /\ NIdle /\ TIdle /\ CIdle
HashSpec == HashInit /\ [][HashNext]_vars

RunInit == NInit /\ BInit /\ IIdle /\ EIdle /\ RIdle /\ HIdle /\ TIdle /\ CIdle
RunSpec == RunInit /\ [][RunNext]_vars

\* every instance has been committed and started
AllStarted ==
    /\ state = [i \in Inst |-> Started]
    /\ skipCleanup = FALSE /\ pc = "ready" /\ op = NoOp /\ pre = state
    /\ trace = <<>> /\ attempted = <<>> /\ ret = NoErr
TeardownInit == TInit /\ AllStarted /\ BIdle /\ EIdle /\ RIdle /\ HIdle /\ NIdle /\ CIdle
TeardownSpec == TeardownInit /\ [][TeardownNext]_vars

ConcInit ==
    /\ CInit
    /\ skipCleanup = FALSE /\ pc = "ready" /\ op = NoOp /\ pre = state
    /\ trace = <<>> /\ attempted = <<>> /\ ret = NoErr
    /\ BIdle /\ EIdle /\ RIdle /\ HIdle /\ NIdle /\ TIdle
ConcSpec == ConcInit /\ [][ConcNext]_vars

IsPrefix(s, t) == Len(s) <= Len(t) /\ s = SubSeq(t, 1, Len(s))
NonNil(s) == SelectSeq(s, LAMBDA x : x # Nil)
\* the instance that owns i: i itself, or the parent of the sidecar i
Owner(i) == <<i[1], 0>>
\* every step of one successful Destroy of i, in the documented order
FullOrder(i) ==
    <<Pod(i), Res(i)>> \o [k \in DOMAIN sidecars(i) |-> Res(sidecars(i)[k])]
        \o <<StateWrite(i)>> \o [k \in DOMAIN sidecars(i) |-> StateWrite(sidecars(i)[k])]
IsDeletion(e) == e[1] \in {"pod", "res"}
IsSidecar(i) == i[2] # 0

DestroyReturned(i) == pc = "returned" /\ op.name = "Destroy" /\ op.args = <<i>>
BatchReturned == pc = "returned" /\ op.name = "BatchDestroy"
Live == {Started, Stopped}

C2_IllegalStateRejected ==
    \A i \in Parents :
        (DestroyReturned(i) /\ pre[i] \in {None, Committed}) =>
            /\ ret = ErrDestroyingNotAllowed(pre[i])
            /\ trace = <<>>
            /\ state = pre

C2_Witness ==
    /\ DestroyReturned(<<"A", 0>>)
    /\ pre[<<"A", 0>>] = Committed
    /\ ret.code = "DestroyingNotAllowed"
    /\ ret.state = Committed

\* C3: what one Destroy call on a Started or Stopped instance does is a
\* prefix of: delete the Pod, delete the resources, delete each sidecar's
\* resources, write the parent's state, write the sidecars' states; every
\* step but the last one done has succeeded; the call returns nil exactly
\* when all of it was done, and otherwise the last step done is the one
\* that failed.
C3_StepOrder ==
    \A i \in Parents :
        (DestroyReturned(i) /\ pre[i] \in Live) =>
            /\ IsPrefix(trace, FullOrder(i))
            /\ \A k \in 1..(Len(trace) - 1) : trace[k] \notin op.faulty
            /\ ret = NoErr <=> trace = FullOrder(i)
            /\ ret # NoErr =>
                  /\ trace # <<>>
                  /\ trace[Len(trace)] \in op.faulty
                  /\ \A k \in DOMAIN trace : IsDeletion(trace[k])
            /\ ret = NoErr => \A k \in DOMAIN trace : trace[k] \notin op.faulty

C3_Witness ==
    /\ DestroyReturned(<<"A", 0>>)
    /\ pre[<<"A", 0>>] = Started
    /\ op.faulty = {Res(<<"A", 1>>)}
    /\ trace = <<Pod(<<"A", 0>>), Res(<<"A", 0>>), Res(<<"A", 1>>)>>
    /\ ret # NoErr

SidecarDeletionFails(i) ==
    /\ Pod(i) \notin op.faulty
    /\ Res(i) \notin op.faulty
    /\ \E k \in DOMAIN sidecars(i) : Res(sidecars(i)[k]) \in op.faulty

\* C5 as stated: when a sidecar's destroy fails the parent keeps its prior
\* state and every sidecar destroyed earlier in the call is Destroyed.
C5_AsStated ==
    \A i \in Parents :
        (DestroyReturned(i) /\ pre[i] \in Live /\ SidecarDeletionFails(i)) =>
            /\ ret # NoErr
            /\ state[i] = pre[i]
            /\ \A k \in DOMAIN sidecars(i) :
                  (\E m \in 1..(Len(trace) - 1) : trace[m] = Res(sidecars(i)[k]))
                      => state[sidecars(i)[k]] = Destroyed

\* C5 (amended): when the deletion of one sidecar's resources fails, Destroy
\* returns the sidecar error before any state is written: the parent and all
\* its sidecars, those whose resources were already deleted included, keep
\* the state they had.
C5_SidecarFailureKeepsStates ==
    \A i \in Parents :
        (DestroyReturned(i) /\ pre[i] \in Live /\ SidecarDeletionFails(i)) =>
            /\ ret = ErrDestroyingResourcesForSidecars(i)
            /\ state = pre
            /\ \A k \in DOMAIN trace : IsDeletion(trace[k])

C5_Witness ==
    /\ DestroyReturned(<<"A", 0>>)
    /\ pre[<<"A", 0>>] = Started
    /\ op.faulty = {Res(<<"A", 2>>)}
    /\ Res(<<"A", 1>>) \in Range(trace)
    /\ ret.code = "DestroyingResourcesForSidecars"
    /\ state[<<"A", 1>>] = Started

\* C6: when the deletion of the Pod or of the resources of the instance
\* fails, Destroy returns that step's error, no sidecar is touched (no
\* deletion for a sidecar is issued) and no state changes.
C6_EarlyFailureSparesSidecars ==
    \A i \in Parents :
        (DestroyReturned(i) /\ pre[i] \in Live
              /\ (Pod(i) \in op.faulty \/ Res(i) \in op.faulty)) =>
            /\ ret = (IF Pod(i) \in op.faulty THEN ErrDestroyingPod(i)
                      ELSE ErrDestroyingResourcesForInstance(i))
            /\ \A k \in DOMAIN trace : ~IsSidecar(trace[k][2]) /\ IsDeletion(trace[k])
            /\ state = pre

C6_Witness ==
    /\ DestroyReturned(<<"A", 0>>)
    /\ pre[<<"A", 0>>] = Started
    /\ op.faulty = {Res(<<"A", 0>>)}
    /\ ret.code = "DestroyingResourcesForInstance"
    /\ trace = <<Pod(<<"A", 0>>), Res(<<"A", 0>>)>>

\* Destroy of i fails in a call made from the states `pre` under op.faulty
WouldFail(i) ==
    \/ pre[i] \in {None, Committed}
    \/ pre[i] \in Live /\ op.faulty \cap Deletions(i) # {}
\* the position of the first instance of s whose Destroy fails, or 0
FirstFailure(s) ==
    IF \E k \in DOMAIN s : WouldFail(s[k])
    THEN CHOOSE k \in DOMAIN s :
            WouldFail(s[k]) /\ \A m \in 1..(k - 1) : ~WouldFail(s[m])
    ELSE 0

\* C7: with the skip-cleanup toggle off, BatchDestroy enters Destroy on its
\* non-nil arguments in argument order up to and including the first one
\* whose Destroy fails, returns that error (nil if none fails), and does
\* nothing for any later instance: no deletion is issued for it and it
\* keeps its state; the instances before the failing one are Destroyed.
C7_BatchFailFast ==
    (BatchReturned /\ ~skipCleanup) =>
        LET nn == NonNil(op.args)
            ff == FirstFailure(nn)
        IN /\ attempted = (IF ff = 0 THEN nn ELSE SubSeq(nn, 1, ff))
           /\ ret = NoErr <=> ff = 0
           /\ ff # 0 => ret \in {ErrDestroyingNotAllowed(pre[nn[ff]]),
                                 ErrDestroyingPod(nn[ff]),
                                 ErrDestroyingResourcesForInstance(nn[ff]),
                                 ErrDestroyingResourcesForSidecars(nn[ff])}
           /\ \A k \in 1..(Len(attempted) - 1) : state[attempted[k]] = Destroyed
           /\ \A k \in DOMAIN trace : Owner(trace[k][2]) \in Range(attempted)
           /\ \A j \in Inst : Owner(j) \notin Range(attempted) => state[j] = pre[j]

C7_Witness ==
    /\ BatchReturned
    /\ ~skipCleanup
    /\ op.args = << <<"A", 0>>, <<"B", 0>>, <<"C", 0>> >>
    /\ \A n \in Names : pre[<<n, 0>>] = Started
    /\ op.faulty = {Res(<<"B", 0>>)}
    /\ attempted = << <<"A", 0>>, <<"B", 0>> >>
    /\ ret = ErrDestroyingResourcesForInstance(<<"B", 0>>)
    /\ state[<<"A", 0>>] = Destroyed
    /\ state[<<"C", 0>>] = Started

\* C8: with the skip-cleanup toggle on, BatchDestroy returns nil, enters
\* Destroy on no instance, issues no remote deletion and changes no state,
\* whatever the states of its arguments.
C8_SkipCleanupNoOp ==
    (BatchReturned /\ skipCleanup) =>
        /\ ret = NoErr
        /\ attempted = <<>>
        /\ trace = <<>>
        /\ state = pre

C8_Witness ==
    /\ BatchReturned
    /\ skipCleanup
    /\ op.args = << <<"A", 0>>, <<"B", 0>> >>
    /\ pre[<<"A", 0>>] = None
    /\ pre[<<"B", 0>>] = Started
    /\ op.faulty = {Pod(<<"B", 0>>)}
    /\ ret = NoErr

----------------------------------------------------------------------------
(* Properties of the BuilderFactory *)

AppendingCalls == {"ExecuteCmdInBuilder", "AddToBuilder", "SetEnvVar", "SetUser"}

\* C9: Changed is true exactly when the instruction list holds more than the
\* initial "FROM <base image>" instruction, which stays first: it is false
\* right after NewBuilderFactory, true after every instruction-appending
\* call, and once true it stays true.
C9_ChangedIffModified ==
    /\ [](/\ dockerFileInstructions # <<>>
          /\ dockerFileInstructions[1] = <<"FROM ">> \o imageNameFrom
          /\ Changed(dockerFileInstructions)
                <=> dockerFileInstructions # InitialInstructions(imageNameFrom)
          /\ bop.name = "NewBuilderFactory" => ~Changed(dockerFileInstructions)
          /\ bop.name \in AppendingCalls => Changed(dockerFileInstructions))
    /\ [][Changed(dockerFileInstructions) => Changed(dockerFileInstructions')]_vars

C9_Witness ==
    /\ bop.name = "PushBuilderImage"
    /\ Changed(dockerFileInstructions)
    /\ Len(dockerFileInstructions) = 2
    /\ bret = "BuildFailed"

\* C10: a PushBuilderImage call on a factory for which Changed is false
\* returns nil, makes no Build call, writes nothing into the context
\* directory and does not record the destination image name.
C10_UnchangedPushIsNoOp ==
    [][(bop'.name = "PushBuilderImage" /\ ~Changed(dockerFileInstructions)) =>
          /\ bret' = NoBErr
          /\ builds' = builds
          /\ contextFiles' = contextFiles
          /\ imageNameTo' = imageNameTo
          /\ dockerFileInstructions' = dockerFileInstructions]_vars

C10_Witness ==
    /\ bop = [name |-> "PushBuilderImage", image |-> "x"]
    /\ ~Changed(dockerFileInstructions)
    /\ bret = NoBErr
    /\ builds = <<>>
    /\ imageNameTo = NoImage
    /\ "Dockerfile" \notin DOMAIN contextFiles

\* the Dockerfile keyword each instruction-appending call writes
Keyword(name) ==
    CASE name = "ExecuteCmdInBuilder" -> "RUN "
      [] name = "AddToBuilder" -> "ADD --chown="
      [] name = "SetEnvVar" -> "ENV "
      [] name = "SetUser" -> "USER "

----------------------------------------------------------------------------
(* BatchDestroy: what is Destroyed when it returns *)

\* the instances whose state the last call turned into Destroyed
DestroyedByCall == {j \in Parents : pre[j] # Destroyed /\ state[j] = Destroyed}

\* C20: with the skip-cleanup toggle off, when BatchDestroy returns nil every
\* non-nil instance of its argument list (and each of its sidecars) is
\* Destroyed, whether the list holds nil entries, the same instance more than
\* once or instances that were Destroyed already; when it returns an error,
\* the instances this call has Destroyed are exactly the non-nil ones before
\* the failing one (those of them that were not Destroyed already), all of
\* which are Destroyed, and the failing one is not.
C20_BatchDestroysAll ==
    (BatchReturned /\ ~skipCleanup) =>
        LET nn == NonNil(op.args)
            ff == FirstFailure(nn)
        IN /\ ret = NoErr =>
                \A k \in DOMAIN op.args : op.args[k] # Nil =>
                    /\ state[op.args[k]] = Destroyed
                    /\ \A sc \in Range(sidecars(op.args[k])) : state[sc] = Destroyed
           /\ ret # NoErr =>
                /\ ff # 0
                /\ \A k \in 1..(ff - 1) : state[nn[k]] = Destroyed
                /\ state[nn[ff]] # Destroyed
                /\ DestroyedByCall
                      = {nn[k] : k \in 1..(ff - 1)} \ {j \in Parents : pre[j] = Destroyed}
           /\ ff # 0 => ret # NoErr

C20_Witness ==
    /\ BatchReturned
    /\ ~skipCleanup
    /\ op.args = << <<"C", 0>>, Nil, <<"A", 0>> >>
    /\ pre[<<"C", 0>>] = Destroyed
    /\ pre[<<"A", 0>>] = Stopped
    /\ op.faulty = {Pod(<<"C", 0>>)}
    /\ ret = NoErr
    /\ state[<<"A", 0>>] = Destroyed
    /\ state[<<"A", 2>>] = Destroyed

\* BatchDestroy with a nil entry and the same instance twice, failing late
C20_WitnessOfFailure ==
    /\ BatchReturned
    /\ ~skipCleanup
    /\ op.args = << <<"A", 0>>, <<"A", 0>>, <<"B", 0>> >>
    /\ pre[<<"A", 0>>] = Started
    /\ ret = ErrDestroyingPod(<<"B", 0>>)
    /\ DestroyedByCall = {<<"A", 0>>}

----------------------------------------------------------------------------
(* Properties of the structured errors *)

\* the errors Error() goes through from e on: e, its cause, the cause of
\* that one, ..., up to the first error without a cause, of another type,
\* or wrapped onto itself
RECURSIVE CauseChain(_, _, _)
CauseChain(c, e, n) ==
    IF n = 0 \/ e \notin ErrKinds \/ c[e] \in {NilErr, e} THEN <<e>>
    ELSE <<e>> \o CauseChain(c, c[e], n - 1)

----------------------------------------------------------------------------
(* Properties of ReadFileFromBuilder *)

ReadReturned == rin.called
\* the call got a container from ContainerCreate
ContainerCreated == rin.image # NoImage /\ "ContainerCreate" \notin rin.fails
CallsOf(name) == {k \in DOMAIN docker : docker[k][1] = name}
\* the daemon as rin, but with ContainerStop and ContainerRemove succeeding
Cooperative(env) == [env EXCEPT !.fails = @ \ {"ContainerStop", "ContainerRemove"}]

\* C14: a ReadFileFromBuilder call that got its container from
\* ContainerCreate makes, whatever happens after (start, copy, archive or
\* file read failure, no file, success), exactly one ContainerStop and then
\* exactly one ContainerRemove call as its last two client calls, the
\* remove also when the stop failed; what it returns is what it returns
\* when stop and remove succeed; a call that got no container makes neither.
C14_ContainerCleanedUp ==
    ReadReturned =>
        /\ ContainerCreated =>
              /\ Len(docker) >= 3
              /\ docker[Len(docker) - 1][1] = "ContainerStop"
              /\ docker[Len(docker)][1] = "ContainerRemove"
              /\ Cardinality(CallsOf("ContainerStop")) = 1
              /\ Cardinality(CallsOf("ContainerRemove")) = 1
        /\ ~ContainerCreated =>
              CallsOf("ContainerStop") \cup CallsOf("ContainerRemove") = {}
        /\ LET r == ReadFileFromBuilder(rin.image, Cooperative(rin)) IN
              rret = [data |-> r.data, err |-> r.err]

\* the stop fails, the remove is made, and the file's bytes are returned
C14_Witness ==
    /\ ReadReturned
    /\ rin.image = "x"
    /\ rin.fails = {"ContainerStop"}
    /\ docker = << <<"ContainerCreate", "ok">>, <<"ContainerStart", "ok">>,
                   <<"CopyFromContainer", "ok">>, <<"ContainerStop", "error">>,
                   <<"ContainerRemove", "ok">> >>
    /\ rret = [data |-> <<"a">>, err |-> NoRErr]

\* the call got the archive stream: it had an image, and ContainerCreate,
\* ContainerStart and CopyFromContainer succeeded
GotArchive ==
    rin.image # NoImage
       /\ rin.fails \cap {"ContainerCreate", "ContainerStart", "CopyFromContainer"} = {}
\* the k-th entry of the archive is the regular file at the requested path
IsRequestedFile(k) == rin.archive[k].type = "reg" /\ rin.archive[k].requested

C19_WitnessOfRead ==
    /\ ReadReturned
    /\ GotArchive
    /\ Len(rin.archive) = 1 /\ IsRequestedFile(1)
    /\ rin.nextFailsAt = 2
    /\ rret = [data |-> <<"b">>, err |-> NoRErr]

----------------------------------------------------------------------------
(* Properties of GenerateImageHash *)

Hashed(f) == hout[f].err = NoBErr
SameInput == hin.instructions[1] = hin.instructions[2] /\ hin.files[1] = hin.files[2]

\* C12: two factories constructed independently, over different
\* directories, with the same instruction list and the same files of the
\* same contents get the same value from GenerateImageHash; and a second
\* GenerateImageHash call on a factory, with nothing changed in between,
\* returns the value the first one returned.
C12_HashDeterministic ==
    /\ []((Hashed(1) /\ Hashed(2) /\ SameInput) => hout[1].value = hout[2].value)
    /\ [][\A f \in Factories :
            (Hashed(f) /\ hout'[f].err = NoBErr) => hout'[f].value = hout[f].value]_vars

C12_Witness ==
    /\ hin.kind = "same"
    /\ Len(hin.instructions[1]) = 3
    /\ DOMAIN hin.files[1] = {"a.txt", "b.txt"}
    /\ Hashed(1) /\ Hashed(2)
    /\ hout[1].value = hout[2].value
    /\ hout[1].value # <<>>

HasLineBreak(instruction) == \E k \in DOMAIN instruction : instruction[k] = "\n"
\* the Dockerfile text of the instruction list of factory f
Text(f) == Join(hin.instructions[f], <<"\n">>)

\* C13 as stated: a second factory that differs from the first in one byte
\* of one file, or in one instruction added, removed or moved to another
\* place, gets another value from GenerateImageHash.
C13_AsStated ==
    (Hashed(1) /\ Hashed(2) /\ hin.kind \in {"byte", "added", "removed", "moved"})
        => hout[1].value # hout[2].value

\* C13: a second factory that differs from the first in one byte of one
\* file, or in one instruction added or removed, gets another value from
\* GenerateImageHash; one that differs in one instruction moved to another
\* place gets another value exactly when the instructions joined by line
\* breaks are another text, which they are whenever no instruction holds a
\* line break.
C13_HashSensitive ==
    (Hashed(1) /\ Hashed(2)) =>
        /\ hin.kind \in {"byte", "added", "removed"} => hout[1].value # hout[2].value
        /\ hin.kind = "moved" =>
              /\ hout[1].value # hout[2].value <=> Text(1) # Text(2)
              /\ (\A k \in DOMAIN hin.instructions[1] :
                     ~HasLineBreak(hin.instructions[1][k])) => Text(1) # Text(2)

\* one byte of a.txt differs, next to an unchanged b.txt
C13_Witness ==
    /\ hin.kind = "byte"
    /\ hin.files[1]["a.txt"] = <<"a">> /\ hin.files[2]["a.txt"] = <<"b">>
    /\ "b.txt" \in DOMAIN hin.files[1]
    /\ Hashed(1) /\ Hashed(2)
    /\ hout[1].value # hout[2].value

\* an instruction without a line break has changed places
C13_WitnessOfMove ==
    /\ hin.kind = "moved"
    /\ hin.instructions[1] = <<<<"FROM ", "a">>, <<"USER ", "a">>, <<"ENV ", "a", "=", "a">>>>
    /\ Hashed(1) /\ Hashed(2)
    /\ hout[1].value # hout[2].value

----------------------------------------------------------------------------
(* The hash as a cache key across runs *)

\* C18 as stated: a run that has the instructions of the run before it, over
\* the same directory with the same files from the caller, gets from
\* GenerateImageHash the value that the run before got before it pushed.
C18_AsStated ==
    (/\ run > 1
     /\ bop.name = "GenerateImageHash"
     /\ hash.err = NoBErr /\ prevRun.hash.err = NoBErr
     /\ dockerFileInstructions = prevRun.instructions
     /\ CallerProvided(contextFiles) = prevRun.files)
        => hash.value = prevRun.hash.value

----------------------------------------------------------------------------
(* The deadline of Destroy *)

InDestroy == pc \in {"calling", "inStep", "returned"} /\ op.name = "Destroy"

\* C17: every deletion of one Destroy call (Pod, resources, each sidecar's
\* resources) gets the one deadline made at the start of the call, timeout
\* after it; so once the deadline has passed while or before a deletion ran,
\* every later deletion of the call finds it passed when it is called, and
\* no deletion is called with time left that an earlier one did not have.
C17_OneDeadline ==
    InDestroy =>
        /\ \A k \in DOMAIN observed :
              /\ observed[k].deadline = ctx.deadline
              /\ observed[k].step = Steps(op.args[1])[k]
              /\ ctx.created <= observed[k].calledAt
        /\ observed # <<>> => ctx.deadline = ctx.created + Timeout
        /\ \A j, k \in DOMAIN observed :
              (j < k /\ ContextDone(observed[j].deadline, observed[j].returnedAt)) =>
                 ContextDone(observed[k].deadline, observed[k].calledAt)

\* the deadline passes while the Pod is deleted; the deletion of the
\* resources is called with the passed deadline and fails
C17_Witness ==
    /\ pc = "returned"
    /\ op.args = << <<"A", 0>> >>
    /\ Len(observed) = 2
    /\ observed[1].calledAt < observed[1].deadline
    /\ observed[1].returnedAt >= observed[1].deadline
    /\ ContextDone(observed[2].deadline, observed[2].calledAt)
    /\ ret = ErrDestroyingResourcesForInstance(<<"A", 0>>)

----------------------------------------------------------------------------
(* Independence of tasks on different objects *)

Done(t) == Current(t) = "done"
\* the instance of task t and its sidecars
Owned(t) == {InstanceOf(t)} \cup Range(sidecars(InstanceOf(t)))

----------------------------------------------------------------------------
(* Properties of the error values callers hold *)

\* what the error h that a caller holds is to render as: its message alone
\* if it was returned without a cause, else its message, ": " and the cause
\* it wrapped
RendersAs(h) ==
    IF h.wrapped = NilErr THEN <<Message(h.err)>>
    ELSE <<Message(h.err), ": ">> \o ErrorText(cause, h.wrapped, MaxNesting)

\* C21 as stated: whenever Error() is called on the error a caller holds
\* and returns, the string is the message with the cause that caller
\* wrapped, or the bare message if the caller was returned the error kind
\* without wrapping, whatever Wrap calls other callers have made on that
\* kind before or since.
C21_AsStated ==
    [][\A t \in Callers :
          ( /\ rendering' # rendering
            /\ rendering'.text # Diverges
            /\ held[t] # NoHeld
            /\ held[t].wrapped # held[t].err
            /\ rendering'.of = held[t].err )
          => rendering'.text = RendersAs(held[t])]_vars

\* C22 as stated: every Error() call returns a string, whatever Wrap calls
\* were made among the package-level error values before it.
C22_AsStated == rendering.text # Diverges

====
